---- MODULE Spec2Model ----
(***************************************************************************)
(* The XPath dependency tracker of Fore: DependencyNotifyingDomFacade and  *)
(* XPathInvalidator (src/assets/@vaadin/vaadin-text-field/src/             *)
(* vaadin-text-area.js, lines 202-464).                                    *)
(*                                                                         *)
(* JavaScript is single-threaded: the calls of the host nest on one call   *)
(* stack, the MutationObserver callback is a microtask that runs only when *)
(* that stack is empty, and the callback handed to                         *)
(* runInInvalidationContext runs between the two halves of that method.    *)
(***************************************************************************)
EXTENDS Integers, Sequences, FiniteSets, TLC

\* Bounds of the model.
NumComponents == 2
NumNodes == 2
MaxRecords == 2
MaxDepth == 2

Components == 1..NumComponents
Nodes == 1..NumNodes

\* null: an empty _currentDomFacade, a missing parentNode.
Null == 0

\* A facade whose runInInvalidationContext has ended (its touchedNodes set is
\* garbage: nothing reads it again). Live facades are numbered by the depth,
\* 1..MaxDepth, of the call that created them.
FinishedFacade == MaxDepth + 1

\* The DOM tree the instance holds: node 1 is the root element, node n > 1 is
\* a child of node n \div 2. node.parentNode is null for the root.
parentNode(node) == node \div 2

\* The subtree of root, root included (subtree: true).
RECURSIVE inSubtree(_, _)
inSubtree(node, root) ==
    IF node = root THEN TRUE
    ELSE IF parentNode(node) = Null THEN FALSE
    ELSE inSubtree(parentNode(node), root)

\* The kinds of change a DOM node can undergo (MutationRecord.type).
MutationTypes == {"childList", "attributes", "characterData"}

\* The MutationObserverInit of observeInstance: childList and attributes are
\* set, "data" is no member of MutationObserverInit (the member is
\* characterData), and subtree is set.
ObservedTypes == {"childList", "attributes"}

\* document.documentElement: the root element, node 1 of the tree.
documentElement == 1

\* What observeInstance may be handed: a value without nodeType, the
\* document, or the root element of the instance.
InstanceRoots ==
    {[nodeType |-> "none", node |-> Null], [nodeType |-> "document", node |-> Null],
     [nodeType |-> "element", node |-> documentElement]}

\* The read primitives of DependencyNotifyingDomFacade.
SelfReads ==
    {"getAllAttributes", "getAttribute", "getChildNodes", "getData",
     "getFirstChild", "getLastChild"}
ParentReads == {"getNextSibling", "getParentNode", "getPreviousSibling"}
FacadeReads == SelfReads \cup ParentReads

VARIABLES
    dependentComponentsByNode,  \* _dependentComponentsByNode: node -> Set of components
    dependenciesByComponent,    \* _dependenciesByComponent: component -> Set of nodes
    queuedMutationRecords,      \* _queuedMutationRecords
    observerRecords,            \* the record queue of _mutationObserver (what takeRecords returns)
    observedRoots,              \* the nodes _mutationObserver.observe was called on
    currentDomFacade,           \* _currentDomFacade
    stack,                      \* the runInInvalidationContext calls in progress, outermost first
    outcome,                    \* how the last completed call of the invalidator ended: what it
                                \* returned (value: an array, facade: a facade or null) or that
                                \* it threw, whether it wrote a warning to the console, and for
                                \* getInvalidatedComponents the number of records it took
    drainsSinceRecord,          \* getInvalidatedComponents calls since the last record was produced (capped)
    changed,                    \* HostSpec: the observed nodes the tree host changed since the last drain
    raced,                      \* HostSpec: the pairs <<c, n>> with a record of target n produced while a
                                \* call for c that had touched n was in progress, since the last drain
    lastRead                    \* ReadSpec: the last read made on a facade, and what it returned

vars ==
    <<dependentComponentsByNode, dependenciesByComponent, queuedMutationRecords,
      observerRecords, observedRoots, currentDomFacade, stack, outcome,
      drainsSinceRecord, changed, raced, lastRead>>

\* What a specification records about the calls made, beside the state of
\* the invalidator.
traces == <<changed, raced, lastRead>>

graph == <<dependentComponentsByNode, dependenciesByComponent>>

EmptyMap == [x \in {} |-> {}]

\* map.get(key) of a map of sets, read as a set: undefined (no entry) has no members.
dependenciesOf(component) ==
    IF component \in DOMAIN dependenciesByComponent
    THEN dependenciesByComponent[component] ELSE {}
dependentsOf(node) ==
    IF node \in DOMAIN dependentComponentsByNode
    THEN dependentComponentsByNode[node] ELSE {}

\* getOrDefault(map, key): the map afterwards (the Set it returns is map[key]).
getOrDefault(map, key) ==
    IF key \in DOMAIN map THEN map
    ELSE [k \in DOMAIN map \cup {key} |-> IF k = key THEN {} ELSE map[k]]

\* Mutant: every read primitive touches the node it is handed.
touchedByItself(read, node) == node

\* The node a read primitive hands to _onNodeTouched: the node itself, or its
\* parent for the sibling and parent reads (Null: no touch).
touchedBy(read, node) ==
    IF read \in ParentReads THEN parentNode(node) ELSE node

\* The loop of runInInvalidationContext over touchedNodes.
RECURSIVE mergeTouched(_, _, _, _)
mergeTouched(byNode, byComponent, component, touchedNodes) ==
    IF touchedNodes = {} THEN [byNode |-> byNode, byComponent |-> byComponent]
    ELSE LET touchedNode == CHOOSE t \in touchedNodes : \A u \in touchedNodes : t <= u
             otherComponents == getOrDefault(byNode, touchedNode)
         IN  mergeTouched([otherComponents EXCEPT ![touchedNode] = @ \cup {component}],
                          [byComponent EXCEPT ![component] = @ \cup {touchedNode}],
                          component, touchedNodes \ {touchedNode})

\* Mutant: the merge adds the touched nodes to the component's dependencies
\* and forgets otherComponents.add(component).
recordDependenciesForwardOnly(byNode, byComponent, component, touchedNodes) ==
    [byNode |-> byNode,
     byComponent |-> [getOrDefault(byComponent, component)
                        EXCEPT ![component] = @ \cup touchedNodes]]

\* The second half of runInInvalidationContext: the graph after the merge.
recordDependencies(byNode, byComponent, component, touchedNodes) ==
    mergeTouched(byNode, getOrDefault(byComponent, component), component, touchedNodes)

\* Mutant: removeComponent deletes the component's entry and leaves the
\* component in the dependent sets of its nodes.
removeComponentEntryOnly(byNode, byComponent, component) ==
    IF component \notin DOMAIN byComponent
    THEN [byNode |-> byNode, byComponent |-> byComponent, threw |-> TRUE]
    ELSE [byNode |-> byNode,
          byComponent |-> [c \in DOMAIN byComponent \ {component} |-> byComponent[c]],
          threw |-> FALSE]

\* Mutant: removeComponent also deletes the entry of a node whose dependent
\* set it has emptied.
removeComponentDroppingEmptied(byNode, byComponent, component) ==
    IF component \notin DOMAIN byComponent
    THEN [byNode |-> byNode, byComponent |-> byComponent, threw |-> TRUE]
    ELSE [byNode |-> [n \in {m \in DOMAIN byNode :
                                m \notin byComponent[component]
                                    \/ byNode[m] \ {component} # {}} |->
                        byNode[n] \ {component}],
          byComponent |-> [c \in DOMAIN byComponent \ {component} |-> byComponent[c]],
          threw |-> FALSE]

\* removeComponent(component): the graph afterwards, or threw when
\* _dependenciesByComponent.get(component) is undefined (for...of over
\* undefined is a TypeError, raised before anything is changed). Every
\* dependency of a component is a key of byNode (KeysKept), so
\* siblingComponents is never undefined.
removeComponent(byNode, byComponent, component) ==
    IF component \notin DOMAIN byComponent
    THEN [byNode |-> byNode, byComponent |-> byComponent, threw |-> TRUE]
    ELSE [byNode |-> [n \in DOMAIN byNode |->
                        IF n \in byComponent[component]
                        THEN byNode[n] \ {component} ELSE byNode[n]],
          byComponent |-> [c \in DOMAIN byComponent \ {component} |-> byComponent[c]],
          threw |-> FALSE]

\* The orders in which a Set can be iterated (a Set iterates in insertion
\* order, which the model does not keep: every order is allowed).
spreads(set) ==
    {s \in [1..Cardinality(set) -> set] : \A i, j \in DOMAIN s : s[i] = s[j] => i = j}

\* Mutant: any record invalidates the dependents of every node, whatever its
\* target.
collectComponentsOfAnyNode(byNode, mutationRecords) ==
    IF mutationRecords = <<>> THEN {<<>>}
    ELSE spreads(UNION {byNode[n] : n \in DOMAIN byNode})

\* Mutant: a record also invalidates the dependents of its target's parent.
RECURSIVE collectComponentsOfParent(_, _)
collectComponentsOfParent(byNode, mutationRecords) ==
    IF mutationRecords = <<>> THEN {<<>>}
    ELSE LET target == Head(mutationRecords).target
             hit == {n \in {target, parentNode(target)} : n \in DOMAIN byNode}
         IN  {p \o rest : p \in spreads(UNION {byNode[n] : n \in hit}),
                          rest \in collectComponentsOfParent(byNode, Tail(mutationRecords))}

\* The first loop of getInvalidatedComponents: the arrays `components` can be.
RECURSIVE collectComponents(_, _)
collectComponents(byNode, mutationRecords) ==
    IF mutationRecords = <<>> THEN {<<>>}
    ELSE LET target == Head(mutationRecords).target
             pushed == IF target \notin DOMAIN byNode THEN {<<>>}
                       ELSE spreads(byNode[target])
         IN  {p \o rest : p \in pushed,
                          rest \in collectComponents(byNode, Tail(mutationRecords))}

\* Mutant: the eviction loop ends after its first element.
evictFirst(byNode, byComponent, components) ==
    IF components = <<>>
    THEN [byNode |-> byNode, byComponent |-> byComponent, threw |-> FALSE]
    ELSE removeComponent(byNode, byComponent, Head(components))

\* The second loop of getInvalidatedComponents: removeComponent on each
\* element of `components` in turn, until one throws.
RECURSIVE evictAll(_, _, _)
evictAll(byNode, byComponent, components) ==
    IF components = <<>>
    THEN [byNode |-> byNode, byComponent |-> byComponent, threw |-> FALSE]
    ELSE LET r == removeComponent(byNode, byComponent, Head(components))
         IN  IF r.threw THEN r
             ELSE evictAll(r.byNode, r.byComponent, Tail(components))

\* No read made yet.
NoRead ==
    [read |-> "none", node |-> Null, bucket |-> "undefined", facade |-> Null,
     result |-> [threw |-> FALSE, nodes |-> <<>>, raw |-> ""]]

NoCall == [call |-> "none", threw |-> FALSE, value |-> <<>>,
                   taken |-> 0, facade |-> Null, warned |-> FALSE]

Init ==
    /\ dependentComponentsByNode = EmptyMap
    /\ dependenciesByComponent = EmptyMap
    /\ queuedMutationRecords = <<>>
    /\ observerRecords = <<>>
    /\ observedRoots = {}
    /\ currentDomFacade = Null
    /\ stack = <<>>
    /\ outcome = NoCall
    /\ drainsSinceRecord = 0
    /\ changed = {}
    /\ raced = {}
    /\ lastRead = NoRead

\* observeInstance(instanceRoot).
observeInstance(instanceRoot) ==
    /\ observedRoots' =
         IF instanceRoot.nodeType = "none" THEN observedRoots
         ELSE IF instanceRoot.nodeType = "document"
              THEN observedRoots \cup {documentElement}
              ELSE observedRoots \cup {instanceRoot.node}
    /\ UNCHANGED <<dependentComponentsByNode, dependenciesByComponent,
                   queuedMutationRecords, observerRecords, currentDomFacade,
                   stack, outcome, drainsSinceRecord>>

\* The tree host changes a node. The observer queues a record when the node
\* lies in an observed subtree and the kind of change is observed.
mutate(node, type) ==
    LET observed == /\ type \in ObservedTypes
                    /\ \E root \in observedRoots : inSubtree(node, root)
    IN  /\ observed =>
              Len(queuedMutationRecords) + Len(observerRecords) < MaxRecords
        /\ observerRecords' =
              IF observed THEN Append(observerRecords, [target |-> node])
              ELSE observerRecords
        /\ drainsSinceRecord' = IF observed THEN 0 ELSE drainsSinceRecord
        /\ UNCHANGED <<dependentComponentsByNode, dependenciesByComponent,
                       queuedMutationRecords, observedRoots, currentDomFacade,
                       stack, outcome>>

\* The MutationObserver callback: a microtask, handed every record the
\* observer holds, run when no call of the host is in progress.
mutationObserverCallback ==
    /\ stack = <<>>
    /\ observerRecords # <<>>
    /\ queuedMutationRecords' = queuedMutationRecords \o observerRecords
    /\ observerRecords' = <<>>
    /\ UNCHANGED <<dependentComponentsByNode, dependenciesByComponent,
                   observedRoots, currentDomFacade, stack, outcome,
                   drainsSinceRecord>>

\* Mutant: getInvalidatedComponents without `this._queuedMutationRecords = []`.
getInvalidatedComponentsKeepingQueue ==
    LET mutationRecords == queuedMutationRecords \o observerRecords
    IN  \E components \in collectComponents(dependentComponentsByNode, mutationRecords) :
          LET r == evictAll(dependentComponentsByNode, dependenciesByComponent, components)
          IN  /\ queuedMutationRecords' = queuedMutationRecords
              /\ observerRecords' = <<>>
              /\ dependentComponentsByNode' = r.byNode
              /\ dependenciesByComponent' = r.byComponent
              /\ outcome' = [call |-> "getInvalidatedComponents", threw |-> r.threw,
                             value |-> IF r.threw THEN <<>> ELSE components,
                             taken |-> Len(mutationRecords),
                             facade |-> Null, warned |-> FALSE]
              /\ drainsSinceRecord' =
                    IF drainsSinceRecord < 2 THEN drainsSinceRecord + 1 ELSE 2
              /\ UNCHANGED <<observedRoots, currentDomFacade, stack>>

\* getInvalidatedComponents().
getInvalidatedComponents ==
    LET mutationRecords == queuedMutationRecords \o observerRecords
    IN  \E components \in collectComponents(dependentComponentsByNode, mutationRecords) :
          LET r == evictAll(dependentComponentsByNode, dependenciesByComponent, components)
          IN  /\ queuedMutationRecords' = <<>>
              /\ observerRecords' = <<>>
              /\ dependentComponentsByNode' = r.byNode
              /\ dependenciesByComponent' = r.byComponent
              /\ outcome' = [call |-> "getInvalidatedComponents", threw |-> r.threw,
                             value |-> IF r.threw THEN <<>> ELSE components,
                             taken |-> Len(mutationRecords),
                             facade |-> Null, warned |-> FALSE]
              /\ drainsSinceRecord' =
                    IF drainsSinceRecord < 2 THEN drainsSinceRecord + 1 ELSE 2
              /\ UNCHANGED <<observedRoots, currentDomFacade, stack>>

\* runInInvalidationContext(component, callback), up to the call of callback.
runInInvalidationContext(component) ==
    /\ Len(stack) < MaxDepth
    /\ stack' = Append(stack, [component |-> component, touchedNodes |-> {}])
    /\ currentDomFacade' = Len(stack) + 1
    /\ UNCHANGED <<dependentComponentsByNode, dependenciesByComponent,
                   queuedMutationRecords, observerRecords, observedRoots,
                   outcome, drainsSinceRecord>>

\* The facades running code can hold: the one in _currentDomFacade, and the
\* one the evaluation in progress was started with.
heldFacades ==
    {currentDomFacade} \cup (IF stack = <<>> THEN {} ELSE {Len(stack)})

\* A read primitive called on a facade: _onNodeTouched adds the touched node
\* to the touchedNodes of the call the facade belongs to. A read with no
\* facade (currentDomFacade returned null) or on the facade of a call that
\* has ended records nothing the invalidator reads again.
facadeRead(facade, read, node) ==
    /\ facade \in heldFacades
    /\ stack' =
         IF facade \in 1..Len(stack) /\ touchedBy(read, node) # Null
         THEN [stack EXCEPT ![facade].touchedNodes = @ \cup {touchedBy(read, node)}]
         ELSE stack
    /\ UNCHANGED <<dependentComponentsByNode, dependenciesByComponent,
                   queuedMutationRecords, observerRecords, observedRoots,
                   currentDomFacade, outcome, drainsSinceRecord>>

\* callback() returns: the rest of runInInvalidationContext.
callbackReturns ==
    /\ stack # <<>>
    /\ LET call == stack[Len(stack)]
           merged == recordDependencies(dependentComponentsByNode, dependenciesByComponent,
                                        call.component, call.touchedNodes)
       IN  /\ dependentComponentsByNode' = merged.byNode
           /\ dependenciesByComponent' = merged.byComponent
    /\ currentDomFacade' = Null
    /\ stack' = SubSeq(stack, 1, Len(stack) - 1)
    /\ outcome' = [call |-> "runInInvalidationContext", threw |-> FALSE, value |-> <<>>,
                   taken |-> 0, facade |-> Null, warned |-> FALSE]
    /\ UNCHANGED <<queuedMutationRecords, observerRecords, observedRoots,
                   drainsSinceRecord>>

\* callback() throws: the exception leaves runInInvalidationContext at the
\* call of callback, and nothing after it runs.
callbackThrows ==
    /\ stack # <<>>
    /\ stack' = SubSeq(stack, 1, Len(stack) - 1)
    /\ currentDomFacade' =
         IF currentDomFacade = Len(stack) THEN FinishedFacade ELSE currentDomFacade
    /\ outcome' = [call |-> "runInInvalidationContext", threw |-> TRUE, value |-> <<>>,
                   taken |-> 0, facade |-> Null, warned |-> FALSE]
    /\ UNCHANGED <<dependentComponentsByNode, dependenciesByComponent,
                   queuedMutationRecords, observerRecords, observedRoots,
                   drainsSinceRecord>>

\* removeComponent(component), called by the host.
evict(component) ==
    LET r == removeComponent(dependentComponentsByNode, dependenciesByComponent, component)
    IN  /\ dependentComponentsByNode' = r.byNode
        /\ dependenciesByComponent' = r.byComponent
        /\ outcome' = [call |-> "removeComponent", threw |-> r.threw, value |-> <<>>,
                       taken |-> 0, facade |-> Null, warned |-> FALSE]
        /\ UNCHANGED <<queuedMutationRecords, observerRecords, observedRoots,
                       currentDomFacade, stack, drainsSinceRecord>>

Next ==
    \/ \E instanceRoot \in InstanceRoots :
          observeInstance(instanceRoot) /\ UNCHANGED traces
    \/ \E node \in Nodes, type \in MutationTypes :
          mutate(node, type) /\ UNCHANGED traces
    \/ mutationObserverCallback /\ UNCHANGED traces
    \/ getInvalidatedComponents /\ UNCHANGED traces
    \/ \E component \in Components :
          runInInvalidationContext(component) /\ UNCHANGED traces
    \/ \E facade \in heldFacades, read \in FacadeReads, node \in Nodes :
          facadeRead(facade, read, node) /\ UNCHANGED traces
    \/ callbackReturns /\ UNCHANGED traces
    \/ callbackThrows /\ UNCHANGED traces
    \/ \E component \in Components : evict(component) /\ UNCHANGED traces

Spec == Init /\ [][Next]_vars

TypeOK ==
    /\ DOMAIN dependentComponentsByNode \subseteq Nodes
    /\ \A n \in DOMAIN dependentComponentsByNode :
          dependentComponentsByNode[n] \subseteq Components
    /\ DOMAIN dependenciesByComponent \subseteq Components
    /\ \A c \in DOMAIN dependenciesByComponent :
          dependenciesByComponent[c] \subseteq Nodes
    /\ Len(queuedMutationRecords) + Len(observerRecords) <= MaxRecords
    /\ observedRoots \subseteq Nodes
    /\ currentDomFacade \in {Null, FinishedFacade} \cup 1..Len(stack)
    /\ Len(stack) <= MaxDepth

\* Every dependency of a component is a key of _dependentComponentsByNode:
\* removeComponent never reads an undefined siblingComponents.
KeysKept ==
    \A c \in DOMAIN dependenciesByComponent :
        dependenciesByComponent[c] \subseteq DOMAIN dependentComponentsByNode

(***************************************************************************)
(* The reads of DependencyNotifyingDomFacade and what they return.         *)
(***************************************************************************)

\* The nodes of the tree the reads are made on: node 1 is the root element,
\* node n > 1 the child of node n \div 2 (parentNode).
NumTreeNodes == 3
TreeNodes == 1..NumTreeNodes

\* node.nodeType: an even node is a text node, the others are elements.
nodeType(node) == IF node % 2 = 0 THEN "text" ELSE "element"

\* Array.from(node.childNodes), in document order.
childNodes(node) ==
    IF 2 * node + 1 <= NumTreeNodes THEN <<2 * node, 2 * node + 1>>
    ELSE IF 2 * node <= NumTreeNodes THEN <<2 * node>>
    ELSE <<>>

\* The chain sibling, sibling.nextSibling, ... starting at node.nextSibling,
\* and the chain of previousSibling starting at node.previousSibling.
nextSiblings(node) ==
    IF node > 1 /\ node % 2 = 0 /\ node + 1 <= NumTreeNodes THEN <<node + 1>> ELSE <<>>
previousSiblings(node) ==
    IF node > 1 /\ node % 2 = 1 THEN <<node - 1>> ELSE <<>>

\* getBucketsForNode(node) of fontoxpath: the buckets a node falls in, of
\* which the model keeps the bucket of the node's type.
getBucketsForNode(node) ==
    IF nodeType(node) = "text" THEN {"type-3"} ELSE {"type-1"}

\* The bucket argument of a read: left out (undefined), or a bucket.
Buckets == {"undefined", "type-1", "type-3"}

\* array.filter(keep) and the first element a loop does not skip.
RECURSIVE filter(_, _)
filter(array, kept) ==
    IF array = <<>> THEN <<>>
    ELSE (IF Head(array) \in kept THEN <<Head(array)>> ELSE <<>>)
             \o filter(Tail(array), kept)
first(array, kept) ==
    LET f == filter(array, kept) IN IF f = <<>> THEN <<>> ELSE <<f[1]>>
last(array, kept) ==
    LET f == filter(array, kept) IN IF f = <<>> THEN <<>> ELSE <<f[Len(f)]>>

\* What a read returns: the nodes (none for null or an empty array), the
\* kind of value for an attribute or data read, or that it threw.
returned(nodes) == [threw |-> FALSE, nodes |-> nodes, raw |-> ""]
value(raw) == [threw |-> FALSE, nodes |-> <<>>, raw |-> raw]
TypeError == [threw |-> TRUE, nodes |-> <<>>, raw |-> ""]

\* The nodes the test `!bucket || getBucketsForNode(n).includes(bucket)`
\* accepts, and those `getBucketsForNode(n).includes(bucket)` accepts.
bucketOrNone(bucket) ==
    {n \in TreeNodes : bucket = "undefined" \/ bucket \in getBucketsForNode(n)}
bucketOnly(bucket) ==
    {n \in TreeNodes : bucket \in getBucketsForNode(n)}

\* What the read primitive of the facade returns, after its touch.
facadeReturns(read, node, bucket) ==
    CASE read = "getAllAttributes" ->
           \* Array.from(undefined) throws: a text node has no attributes
           IF nodeType(node) = "text" THEN TypeError ELSE value("attributes")
      [] read = "getAttribute" ->
           \* a text node has no method getAttribute
           IF nodeType(node) = "text" THEN TypeError ELSE value("attribute")
      [] read = "getChildNodes" ->
           returned(filter(childNodes(node), bucketOrNone(bucket)))
      [] read = "getData" ->
           IF nodeType(node) = "text" THEN value("data") ELSE value("undefined")
      [] read = "getFirstChild" ->
           returned(first(childNodes(node), bucketOrNone(bucket)))
      [] read = "getLastChild" ->
           \* node.getChildNodes is undefined on a DOM node: calling it throws
           TypeError
      [] read = "getNextSibling" ->
           returned(first(nextSiblings(node), bucketOrNone(bucket)))
      [] read = "getParentNode" ->
           returned(IF parentNode(node) = Null THEN <<>> ELSE <<parentNode(node)>>)
      [] read = "getPreviousSibling" ->
           returned(first(previousSiblings(node), bucketOnly(bucket)))

(***************************************************************************)
(* The host's update loop: the calls of the host follow one another, none  *)
(* is made from inside a callback. The tree host may change a node at any  *)
(* time.                                                                   *)
(***************************************************************************)

\* The getter currentDomFacade.
currentDomFacadeGetter ==
    /\ outcome' =
         IF currentDomFacade = Null
         THEN [call |-> "currentDomFacade", threw |-> FALSE, value |-> <<>>,
               taken |-> 0, facade |-> Null, warned |-> TRUE]
         ELSE [call |-> "currentDomFacade", threw |-> FALSE, value |-> <<>>,
               taken |-> 0, facade |-> currentDomFacade, warned |-> FALSE]
    /\ UNCHANGED <<dependentComponentsByNode, dependenciesByComponent,
                   queuedMutationRecords, observerRecords, observedRoots,
                   currentDomFacade, stack, drainsSinceRecord>>

hostObserves(instanceRoot) ==
    observeInstance(instanceRoot) /\ UNCHANGED traces

\* A change of the tree: it is noted in `changed` when the node lies in an
\* observed subtree, and in `raced` when a record is produced for a node a
\* call in progress has touched.
treeChanges(node, type) ==
    /\ mutate(node, type)
    /\ changed' =
         IF \E root \in observedRoots : inSubtree(node, root)
         THEN changed \cup {node} ELSE changed
    /\ raced' =
         IF observerRecords' # observerRecords
         THEN raced \cup {<<stack[i].component, node>> :
                            i \in {j \in DOMAIN stack : node \in stack[j].touchedNodes}}
         ELSE raced
    /\ UNCHANGED lastRead

recordsDelivered ==
    mutationObserverCallback /\ UNCHANGED traces

hostDrains ==
    /\ stack = <<>>
    /\ getInvalidatedComponents
    /\ changed' = {}
    /\ raced' = {}
    /\ UNCHANGED lastRead

hostEvaluates(component) ==
    /\ stack = <<>>
    /\ runInInvalidationContext(component)
    /\ UNCHANGED traces

evaluationReads(facade, read, node) ==
    facadeRead(facade, read, node) /\ UNCHANGED traces

evaluationReturns ==
    callbackReturns /\ UNCHANGED traces

\* The evaluation throws: its touches are dropped, and with them what raced
\* with them.
evaluationThrows ==
    /\ callbackThrows
    /\ raced' = {p \in raced : p[1] # stack[Len(stack)].component}
    /\ UNCHANGED <<changed, lastRead>>

HostNext ==
    \/ \E instanceRoot \in InstanceRoots : hostObserves(instanceRoot)
    \/ \E node \in Nodes, type \in MutationTypes : treeChanges(node, type)
    \/ recordsDelivered
    \/ hostDrains
    \/ \E component \in Components : hostEvaluates(component)
    \/ \E facade \in heldFacades, read \in FacadeReads, node \in Nodes :
          evaluationReads(facade, read, node)
    \/ evaluationReturns
    \/ evaluationThrows

HostSpec == Init /\ [][HostNext]_vars

(***************************************************************************)
(* One evaluator at work: it starts an evaluation or not, asks the         *)
(* invalidator for the current facade, and calls read primitives on what   *)
(* it was given.                                                           *)
(***************************************************************************)

\* The reads that take a bucket.
BucketReads ==
    {"getChildNodes", "getFirstChild", "getLastChild", "getNextSibling",
     "getPreviousSibling"}

evaluatorAsksFacade ==
    currentDomFacadeGetter /\ UNCHANGED traces

\* A read primitive called on the value the getter returned last. Calling a
\* method on null throws a TypeError.
evaluatorReads(read, node, bucket) ==
    /\ outcome.call = "currentDomFacade"
    /\ bucket # "undefined" => read \in BucketReads
    /\ facadeRead(outcome.facade, read, node)
    /\ lastRead' =
         [read |-> read, node |-> node, bucket |-> bucket, facade |-> outcome.facade,
          result |-> IF outcome.facade = Null THEN TypeError
                     ELSE facadeReturns(read, node, bucket)]
    /\ UNCHANGED <<changed, raced>>

ReadNext ==
    \/ \E component \in Components : hostEvaluates(component)
    \/ evaluatorAsksFacade
    \/ \E read \in FacadeReads, node \in TreeNodes, bucket \in Buckets :
          evaluatorReads(read, node, bucket)
    \/ evaluationReturns
    \/ evaluationThrows

ReadSpec == Init /\ [][ReadNext]_vars

\* What the read returns when made on the tree itself: the first or last
\* child, the nearest following or preceding sibling, the children, the
\* parent (among the nodes of the bucket when one is given), the attributes
\* or the data.
treeReturns(read, node, bucket) ==
    CASE read = "getChildNodes" ->
           returned(filter(childNodes(node), bucketOrNone(bucket)))
      [] read = "getFirstChild" ->
           returned(first(childNodes(node), bucketOrNone(bucket)))
      [] read = "getLastChild" ->
           returned(last(childNodes(node), bucketOrNone(bucket)))
      [] read = "getNextSibling" ->
           returned(first(nextSiblings(node), bucketOrNone(bucket)))
      [] read = "getPreviousSibling" ->
           returned(first(previousSiblings(node), bucketOrNone(bucket)))
      [] read = "getParentNode" ->
           returned(IF parentNode(node) = Null THEN <<>> ELSE <<parentNode(node)>>)
      [] OTHER -> facadeReturns(read, node, bucket)

(***************************************************************************)
(* The claims.                                                             *)
(***************************************************************************)

\* The records a getInvalidatedComponents call made now would take, their
\* targets, and the elements of an array.
pendingRecords == queuedMutationRecords \o observerRecords
pendingTargets == {pendingRecords[i].target : i \in DOMAIN pendingRecords}
elements(array) == {array[i] : i \in DOMAIN array}
drained == outcome.call = "getInvalidatedComponents"

\* C1: in every reachable state, n is in dependenciesOf(c) if and only if c
\* is in dependentsOf(n), for every component c and node n.
C1_Symmetry ==
    \A c \in Components, n \in Nodes :
        (n \in dependenciesOf(c)) <=> (c \in dependentsOf(n))

\* A drain has evicted one component while another still holds an edge.
C1_Witness ==
    /\ drained
    /\ outcome.value # <<>>
    /\ \E c \in Components, n \in Nodes :
          /\ c \notin elements(outcome.value)
          /\ n \in dependenciesOf(c)
          /\ c \in dependentsOf(n)

\* C2: getInvalidatedComponents returns the deduplicated union of the
\* dependents of the targets of the pending records: it returns, every
\* component that depends on a mutated target is in the result exactly once,
\* and no other component is.
C2_DeduplicatedUnion ==
    [][getInvalidatedComponents =>
          /\ ~outcome'.threw
          /\ elements(outcome'.value) = UNION {dependentsOf(n) : n \in pendingTargets}
          /\ \A i, j \in DOMAIN outcome'.value :
                outcome'.value[i] = outcome'.value[j] => i = j]_vars

\* C3: every record produced before a getInvalidatedComponents call, queued
\* or still held by the observer, is consumed by that call and contributes
\* the dependents of its target to the result the call returns; none is left
\* for a later call.
C3_Ordering ==
    [][getInvalidatedComponents =>
          /\ queuedMutationRecords' = <<>>
          /\ observerRecords' = <<>>
          /\ ~outcome'.threw
          /\ \A i \in DOMAIN pendingRecords :
                dependentsOf(pendingRecords[i].target) \subseteq elements(outcome'.value)]_vars

\* C4: when the callback of runInInvalidationContext(c, callback) returns,
\* every node touched through the facade of that call is in dependenciesOf(c)
\* afterwards, and c is in dependentsOf of each such node.
C4_Capture ==
    [][callbackReturns =>
          LET call == stack[Len(stack)]
          IN  \A n \in call.touchedNodes :
                /\ call.component \in DOMAIN dependenciesByComponent'
                /\ n \in dependenciesByComponent'[call.component]
                /\ n \in DOMAIN dependentComponentsByNode'
                /\ call.component \in dependentComponentsByNode'[n]]_vars

\* A runInInvalidationContext call has returned and left edges in the graph.
C4_Witness ==
    /\ outcome.call = "runInInvalidationContext"
    /\ ~outcome.threw
    /\ \E c \in Components : Cardinality(dependenciesOf(c)) >= 2

\* C5: _currentDomFacade is empty after every runInInvalidationContext call,
\* whether its callback returned or threw.
C5_SlotCleared ==
    [][(callbackReturns \/ callbackThrows) => currentDomFacade' = Null]_vars

\* C6: when the callback throws, the nodes touched before the failure are
\* still merged into dependenciesOf(c) and the reverse edges into dependentsOf.
C6_MergedOnFailure ==
    [][callbackThrows =>
          LET call == stack[Len(stack)]
          IN  \A n \in call.touchedNodes :
                /\ call.component \in DOMAIN dependenciesByComponent'
                /\ n \in dependenciesByComponent'[call.component]
                /\ n \in DOMAIN dependentComponentsByNode'
                /\ call.component \in dependentComponentsByNode'[n]]_vars

\* C7: runInInvalidationContext is guarded against reentry: no call is
\* admitted while another is in progress, so while a callback runs
\* _currentDomFacade holds the facade of its call.
C7_NonReentrant ==
    /\ Len(stack) <= 1
    /\ stack # <<>> => currentDomFacade = Len(stack)

\* C8: a getInvalidatedComponents call leaves alone every component whose
\* dependency set is disjoint from the mutated targets: it is not in the
\* result, its entry in _dependenciesByComponent is unchanged and so is its
\* membership in every dependent set.
C8_Precise ==
    [][getInvalidatedComponents =>
          \A a \in Components :
              dependenciesOf(a) \cap pendingTargets = {} =>
                  /\ a \notin elements(outcome'.value)
                  /\ (a \in DOMAIN dependenciesByComponent')
                        = (a \in DOMAIN dependenciesByComponent)
                  /\ a \in DOMAIN dependenciesByComponent =>
                        dependenciesByComponent'[a] = dependenciesByComponent[a]
                  /\ \A n \in Nodes :
                        (n \in DOMAIN dependentComponentsByNode'
                            /\ a \in dependentComponentsByNode'[n])
                        = (a \in dependentsOf(n))]_vars

\* A drain has returned a component and left another, tracked one alone.
C8_Witness ==
    /\ drained
    /\ ~outcome.threw
    /\ outcome.value # <<>>
    /\ \E a \in Components :
          a \notin elements(outcome.value) /\ dependenciesOf(a) # {}

\* C9: with one pending record, of target p, getInvalidatedComponents
\* returns exactly the dependents of p, each once, and afterwards each of
\* them has no entry in _dependenciesByComponent and is in no dependent set.
C9_FanOut ==
    [][(getInvalidatedComponents /\ Len(pendingRecords) = 1) =>
          LET p == pendingRecords[1].target
          IN  /\ ~outcome'.threw
              /\ elements(outcome'.value) = dependentsOf(p)
              /\ Len(outcome'.value) = Cardinality(dependentsOf(p))
              /\ \A c \in dependentsOf(p) :
                    /\ c \notin DOMAIN dependenciesByComponent'
                    /\ \A n \in DOMAIN dependentComponentsByNode' :
                          c \notin dependentComponentsByNode'[n]]_vars

\* A drain of one record has returned two components, and a second node had
\* dependents too.
C9_Witness ==
    /\ drained
    /\ outcome.taken = 1
    /\ Cardinality(elements(outcome.value)) >= 2
    /\ Cardinality(DOMAIN dependentComponentsByNode) >= 2

\* C10: a getInvalidatedComponents call made after another, with no record
\* produced in between, returns the empty array and leaves the graph as it is.
C10_Idempotent ==
    [][(getInvalidatedComponents /\ drainsSinceRecord >= 1) =>
          /\ ~outcome'.threw
          /\ outcome'.value = <<>>
          /\ graph' = graph]_vars

\* Two drains with no record produced in between, while a component is
\* tracked.
C10_Witness ==
    /\ drained
    /\ drainsSinceRecord = 2
    /\ \E c \in Components : dependenciesOf(c) # {}

\* The dependencies of a component after a step.
dependenciesAfter(component) ==
    IF component \in DOMAIN dependenciesByComponent'
    THEN dependenciesByComponent'[component] ELSE {}

\* C11: removeComponent(component) on a component with no recorded
\* dependencies completes normally and leaves both indices as they are.
C11_EvictNoOp ==
    [][\A c \in Components :
          (evict(c) /\ dependenciesOf(c) = {}) =>
              /\ ~outcome'.threw
              /\ \A d \in Components : dependenciesAfter(d) = dependenciesOf(d)
              /\ dependentComponentsByNode' = dependentComponentsByNode]_vars

\* C16: a node is a key of _dependentComponentsByNode only while it has at
\* least one dependent: no key maps to an empty set.
C16_NoEmptyEntry ==
    \A n \in DOMAIN dependentComponentsByNode : dependentComponentsByNode[n] # {}

\* C16, amended: a node becomes a key of _dependentComponentsByNode only
\* when runInInvalidationContext merges a touch of it, with the component as
\* its dependent, and a key is never removed afterwards (once its last
\* dependent is evicted it maps to an empty set).
C16_KeysEnterByTouchAndStay ==
    [][/\ DOMAIN dependentComponentsByNode \subseteq DOMAIN dependentComponentsByNode'
       /\ \A n \in DOMAIN dependentComponentsByNode' \ DOMAIN dependentComponentsByNode :
             /\ callbackReturns
             /\ n \in stack[Len(stack)].touchedNodes
             /\ stack[Len(stack)].component \in dependentComponentsByNode'[n]]_vars

\* An eviction has left a node with an empty dependent set.
C16_Witness ==
    /\ outcome.call \in {"getInvalidatedComponents", "removeComponent"}
    /\ ~outcome.threw
    /\ \E n \in DOMAIN dependentComponentsByNode : dependentComponentsByNode[n] = {}

\* C17: a re-run merges the new touch set into the component's dependencies
\* and never resets them; a dependency set shrinks only through eviction;
\* and no invalidation is missed: a getInvalidatedComponents call returns
\* every component that depends on a mutated target.
C17_MonotonicGrowth ==
    [][/\ callbackReturns =>
             LET call == stack[Len(stack)]
             IN  dependenciesAfter(call.component)
                    = dependenciesOf(call.component) \cup call.touchedNodes
       /\ \A c \in Components :
             ~(dependenciesOf(c) \subseteq dependenciesAfter(c)) =>
                 /\ getInvalidatedComponents \/ evict(c)
                 /\ c \notin DOMAIN dependenciesByComponent'
       /\ getInvalidatedComponents =>
             \A c \in Components :
                 dependenciesOf(c) \cap pendingTargets # {} =>
                     c \in elements(outcome'.value)]_vars

\* C17, the part the code keeps: the merge and the shrinking only through
\* eviction.
C17_MergedNeverReset ==
    [][/\ callbackReturns =>
             LET call == stack[Len(stack)]
             IN  dependenciesAfter(call.component)
                    = dependenciesOf(call.component) \cup call.touchedNodes
       /\ \A c \in Components :
             ~(dependenciesOf(c) \subseteq dependenciesAfter(c)) =>
                 /\ getInvalidatedComponents \/ evict(c)
                 /\ c \notin DOMAIN dependenciesByComponent']_vars

\* C18: getInvalidatedComponents completes without a fault, whatever the
\* graph and the pending records.
C18_DrainTotal ==
    drained => ~outcome.threw

\* C20: a getInvalidatedComponents call whose pending records all have
\* targets without dependents returns the empty array, leaves the graph as
\* it is and empties both sources of records.
C20_TargetOnly ==
    [][(/\ getInvalidatedComponents
        /\ pendingRecords # <<>>
        /\ \A n \in pendingTargets : dependentsOf(n) = {}) =>
           /\ ~outcome'.threw
           /\ outcome'.value = <<>>
           /\ graph' = graph
           /\ queuedMutationRecords' = <<>>
           /\ observerRecords' = <<>>]_vars

\* A drain has taken records and returned nothing while a component is
\* tracked: the records' targets were nodes it does not depend on.
C20_Witness ==
    /\ drained
    /\ outcome.taken >= 1
    /\ ~outcome.threw
    /\ outcome.value = <<>>
    /\ \E c \in Components : dependenciesOf(c) # {}

\* C14: after observeInstance(root), every kind of change of a node in the
\* subtree (child list, attribute, text data) produces a mutation record, so
\* every node changed since the last drain is the target of a pending
\* record; the next drain returns every component that depends on a changed
\* node (A after A read the data of a text node that then changed), and a
\* drain with nothing pending returns the empty array.
C14_EndToEnd ==
    [][/\ changed' \subseteq pendingTargets'
       /\ hostDrains =>
             \A c \in Components :
                 dependenciesOf(c) \cap changed # {} => c \in elements(outcome'.value)
       /\ (hostDrains /\ pendingRecords = <<>>) => outcome'.value = <<>>]_vars

\* What holds of C14: a change of a kind in ObservedTypes of a node in an
\* observed subtree produces a record with that node as target.
C14_ObservedKindsRecorded ==
    [][\A node \in Nodes, type \in ObservedTypes :
          (treeChanges(node, type) /\ \E root \in observedRoots : inSubtree(node, root))
              => node \in pendingTargets']_vars

\* C19: a record of target n produced while a call for c that has touched n
\* is in progress stays pending until a drain, and the first drain after
\* the call has returned includes c in its result.
C19_RaceNotLost ==
    [][/\ \A p \in raced' : p[2] \in pendingTargets'
       /\ hostDrains => \A p \in raced : p[1] \in elements(outcome'.value)]_vars

\* What holds of C19: the record stays pending, and a drain that does not
\* throw includes c.
C19_UnlessDrainThrows ==
    [][/\ \A p \in raced' : p[2] \in pendingTargets'
       /\ (hostDrains /\ ~outcome'.threw) =>
             \A p \in raced : p[1] \in elements(outcome'.value)]_vars

\* The step is a read of an evaluator: the one lastRead records afterwards.
evaluatorRead ==
    /\ lastRead'.read \in FacadeReads
    /\ evaluatorReads(lastRead'.read, lastRead'.node, lastRead'.bucket)

\* C12: the getter currentDomFacade called with no active context does not
\* throw, writes a warning, and returns a value through which reads still
\* succeed against the tree and record no touch; the dependency graph, the
\* pending records and the slot are unchanged.
C12_SentinelReads ==
    [][/\ (evaluatorAsksFacade /\ currentDomFacade = Null) =>
             /\ ~outcome'.threw
             /\ outcome'.warned
             /\ UNCHANGED <<graph, queuedMutationRecords, observerRecords,
                            currentDomFacade, stack>>
       /\ (evaluatorRead /\ outcome.warned) =>
                 /\ lastRead'.result =
                       treeReturns(lastRead'.read, lastRead'.node, lastRead'.bucket)
                 /\ UNCHANGED <<graph, queuedMutationRecords, observerRecords,
                                currentDomFacade, stack>>]_vars

\* What holds of C12: the getter does not throw, warns, returns null and
\* changes nothing, and a read attempted on null records no touch.
C12_GetterHarmless ==
    [][/\ (evaluatorAsksFacade /\ currentDomFacade = Null) =>
             /\ ~outcome'.threw
             /\ outcome'.warned
             /\ outcome'.facade = Null
             /\ UNCHANGED <<graph, queuedMutationRecords, observerRecords,
                            currentDomFacade, stack>>
       /\ (evaluatorRead /\ outcome.warned) =>
                 /\ lastRead'.result.threw
                 /\ UNCHANGED <<graph, queuedMutationRecords, observerRecords,
                                currentDomFacade, stack>>]_vars

\* C13: getNextSibling(node), getPreviousSibling(node) and
\* getParentNode(node) add the parent of node, and nothing else, to the
\* touches of the evaluation (nothing at all when node has no parent), and
\* the merge adds exactly the touches to the dependencies of the component:
\* an evaluation that only makes these reads on children of Y records Y.
C13_ParentRedirection ==
    [][/\ (/\ evaluatorRead
           /\ lastRead'.read \in ParentReads
           /\ outcome.facade \in 1..Len(stack)) =>
                 stack'[outcome.facade].touchedNodes =
                     stack[outcome.facade].touchedNodes
                         \cup (IF parentNode(lastRead'.node) = Null THEN {}
                               ELSE {parentNode(lastRead'.node)})
       /\ evaluationReturns =>
             dependenciesAfter(stack[Len(stack)].component) =
                 dependenciesOf(stack[Len(stack)].component)
                     \cup stack[Len(stack)].touchedNodes]_vars

\* An evaluation has read the next sibling of a child of node 1: its only
\* touch is node 1.
C13_Witness ==
    /\ lastRead.read = "getNextSibling"
    /\ parentNode(lastRead.node) = 1
    /\ lastRead.facade = 1
    /\ stack # <<>>
    /\ stack[1].touchedNodes = {1}

\* C15: every read made on a facade returns what the read returns when made
\* on the tree itself, and none throws: without a bucket the first or last
\* child and the following or preceding sibling, or nothing when there is
\* none.
C15_Transparent ==
    (lastRead.read # "none" /\ lastRead.facade # Null) =>
        lastRead.result = treeReturns(lastRead.read, lastRead.node, lastRead.bucket)

\* What holds of C15: every read other than getLastChild, and other than
\* getPreviousSibling without a bucket, returns what the tree returns.
C15_OtherReadsTransparent ==
    (/\ lastRead.read \notin {"none", "getLastChild"}
     /\ ~(lastRead.read = "getPreviousSibling" /\ lastRead.bucket = "undefined")
     /\ lastRead.facade # Null) =>
        lastRead.result = treeReturns(lastRead.read, lastRead.node, lastRead.bucket)

====
